---- MODULE Spec2Model ----
(***************************************************************************)
(* A model of src/app.py, the Airly indoor air quality dashboard.          *)
(*                                                                         *)
(* Numbers.  Every float of the program (a concentration, a band bound, a  *)
(* mean, a marker size, a percentage) is a fixed-point integer counting    *)
(* units of 1/1000: 11.5 is 11500, 238.78 is 238780, a size of 25 is      *)
(* 25000 and 75.0 percent is 75000.  A missing value (the NaN of pandas)   *)
(* is the value NaN, which compares false with everything.  A mean is not  *)
(* a multiple of 1/1000 in general: it is kept as the fraction num / den   *)
(* of two integers, in lowest terms, num counting units of 1/1000,         *)
(* together with the side of it on which the double of the program lies;   *)
(* what is computed from the mean (the band it falls in, the marker size)  *)
(* is computed from these.                                                 *)
(***************************************************************************)
EXTENDS Integers, Sequences, FiniteSets, TLC

VARIABLES
    csv_file,       \* the file at csv_path: whether it exists, whether it can be read and parsed, its rows
    df,             \* the data frame st.cache_data holds of load_and_process_data: a sequence
                    \* of rows, none before the first load and when the load returned None
    session,        \* st.session_state: a function from the keys present to their values
    pollutant,      \* the value of the sidebar selectbox "Select Pollutant to Display"
    selected_day,   \* the value of the selectbox of the Weekly Patterns tab
    out,            \* what the last run of main() put on the page
    probe           \* one call of get_color_for_value and of the size scaling: arguments and results

vars == <<csv_file, df, session, pollutant, selected_day, out, probe>>

(***************************************************************************)
(* Bounds of the model.                                                    *)
(***************************************************************************)
\* concentrations handed to the classifier alone: 0.00, 0.01, ..., MaxCenti/100
MaxCenti == 30000
\* rows of the CSV file
MaxRows == 2

(***************************************************************************)
(* Missing values and comparisons with them.                               *)
(***************************************************************************)
\* float('nan'): a number no concentration, mean, ratio or size of the model can take
NaN == -999999999
\* float('inf'): above every concentration of the model
Inf == 999999999

IsNaN(v) == v = NaN

\* Python's  a <= b  on floats: false as soon as one side is NaN
Leq(a, b) == ~IsNaN(a) /\ ~IsNaN(b) /\ a <= b
\* Python's  a < b
Lt(a, b) == ~IsNaN(a) /\ ~IsNaN(b) /\ a < b
\* Python's  a > b
Gt(a, b) == ~IsNaN(a) /\ ~IsNaN(b) /\ a > b

\* Python's built-in min(a, b): b only if b < a
PyMin(a, b) == IF Lt(b, a) THEN b ELSE a
\* Python's built-in max(a, b): b only if b > a
PyMax(a, b) == IF Gt(b, a) THEN b ELSE a

(***************************************************************************)
(* IEEE doubles.  Where the last bit of a float decides what the program   *)
(* does (a mean that sits on a band bound, a percentage half way between   *)
(* two tenths) the float is computed bit by bit.  Numbers of more than 32  *)
(* bits are sequences of bits, the most significant first.                 *)
(***************************************************************************)
\* n bits of the binary expansion of r / t (r < t), and what is left of r
RECURSIVE BitsOfQuotient(_, _, _)
BitsOfQuotient(r, t, n) ==
    IF n = 0 THEN <<>>
    ELSE IF 2 * r >= t THEN <<1>> \o BitsOfQuotient(2 * r - t, t, n - 1)
    ELSE <<0>> \o BitsOfQuotient(2 * r, t, n - 1)

RECURSIVE RestOfQuotient(_, _, _)
RestOfQuotient(r, t, n) ==
    IF n = 0 THEN r
    ELSE IF 2 * r >= t THEN RestOfQuotient(2 * r - t, t, n - 1)
    ELSE RestOfQuotient(2 * r, t, n - 1)

\* the zeros the expansion of r / t begins with
RECURSIVE LeadingZeros(_, _)
LeadingZeros(r, t) == IF 2 * r >= t THEN 0 ELSE 1 + LeadingZeros(2 * r, t)

RECURSIVE Pow2(_)
Pow2(n) == IF n = 0 THEN 1 ELSE 2 * Pow2(n - 1)

Zeros(n) == [i \in 1..n |-> 0]

RECURSIVE BitsOf(_)
BitsOf(n) == IF n = 0 THEN <<>> ELSE BitsOf(n \div 2) \o <<n % 2>>

\* bits without the zeros in front
StripZeros(bits) ==
    LET ones == {i \in 1..Len(bits) : bits[i] = 1}
    IN  IF ones = {} THEN <<>>
        ELSE SubSeq(bits, CHOOSE i \in ones : \A j \in ones : i <= j, Len(bits))

\* bits + 1: the ones at the end become zeros, the zero before them a one
IncBits(bits) ==
    LET zeros == {i \in 1..Len(bits) : bits[i] = 0}
        last  == CHOOSE i \in zeros : \A j \in zeros : j <= i
    IN  IF zeros = {} THEN <<1>> \o Zeros(Len(bits))
        ELSE [i \in 1..Len(bits) |-> IF i < last THEN bits[i] ELSE IF i = last THEN 1 ELSE 0]

\* the number the w bits of bits from position from on spell
RECURSIVE BlockOf(_, _, _)
BlockOf(bits, from, w) ==
    IF w = 0 THEN 0 ELSE 2 * BlockOf(bits, from, w - 1) + bits[from + w - 1]

\* the carry out of the i last bits of x + y, x and y of the same length,
\* taken 16 bits at a time
RECURSIVE Carry(_, _, _)
Carry(x, y, i) ==
    IF i = 0 THEN 0
    ELSE LET w == IF i < 16 THEN i ELSE 16
         IN  (BlockOf(x, Len(x) - i + 1, w) + BlockOf(y, Len(y) - i + 1, w) + Carry(x, y, i - w))
                 \div Pow2(w)

\* x + y
AddBits(x, y) ==
    LET n  == (IF Len(x) > Len(y) THEN Len(x) ELSE Len(y)) + 1
        px == Zeros(n - Len(x)) \o x
        py == Zeros(n - Len(y)) \o y
    IN  [i \in 1..n |-> (px[i] + py[i] + Carry(px, py, n - i)) % 2]

\* -1, 0, 1 as x is below, equal to, above y, for x and y of the same
\* length, from position i on, 16 bits at a time
RECURSIVE CompareFrom(_, _, _)
CompareFrom(x, y, i) ==
    IF i > Len(x) THEN 0
    ELSE LET w == IF Len(x) - i + 1 < 16 THEN Len(x) - i + 1 ELSE 16
         IN  IF BlockOf(x, i, w) < BlockOf(y, i, w) THEN -1
             ELSE IF BlockOf(x, i, w) > BlockOf(y, i, w) THEN 1
             ELSE CompareFrom(x, y, i + w)

\* -1, 0, 1 as x is below, equal to, above y
CompareBits(x, y) ==
    CompareFrom(Zeros((IF Len(x) > Len(y) THEN Len(x) ELSE Len(y)) - Len(x)) \o x,
                Zeros((IF Len(x) > Len(y) THEN Len(x) ELSE Len(y)) - Len(y)) \o y, 1)

\* a number of more than 53 bits rounded to 53 bits, half to even: the bits
\* kept (the bits dropped count as zeros)
RoundTo53(bits) ==
    IF Len(bits) <= 53 THEN bits
    ELSE LET keep   == SubSeq(bits, 1, 53)
             rest   == SubSeq(bits, 54, Len(bits))
             sticky == \E i \in 2..Len(rest) : rest[i] = 1
         IN  IF rest[1] = 1 /\ (sticky \/ keep[53] = 1)
             THEN IncBits(keep) \o Zeros(Len(rest))
             ELSE keep \o Zeros(Len(rest))

\* x - y, for x >= y: the borrow out of the i last bits, 16 bits at a time
RECURSIVE Borrow(_, _, _)
Borrow(x, y, i) ==
    IF i = 0 THEN 0
    ELSE LET w == IF i < 16 THEN i ELSE 16
         IN  IF BlockOf(x, Len(x) - i + 1, w) - BlockOf(y, Len(y) - i + 1, w) - Borrow(x, y, i - w) < 0
             THEN 1 ELSE 0

SubBits(x, y) ==
    LET n  == IF Len(x) > Len(y) THEN Len(x) ELSE Len(y)
        px == Zeros(n - Len(x)) \o x
        py == Zeros(n - Len(y)) \o y
    IN  [i \in 1..n |-> (px[i] - py[i] - Borrow(px, py, n - i) + 2) % 2]

\* what is left of the i first bits of a number divided by t < 2^22, taken
\* 8 bits at a time
RECURSIVE RemAt(_, _, _)
RemAt(bits, t, i) ==
    IF i = 0 THEN 0
    ELSE LET w == IF i < 8 THEN i ELSE 8
         IN  (RemAt(bits, t, i - w) * Pow2(w) + BlockOf(bits, i - w + 1, w)) % t

\* the whole part of a number over t
DivBits(bits, t) == [i \in 1..Len(bits) |-> (2 * RemAt(bits, t, i - 1) + bits[i]) \div t]

\* a double is a record: its value is m * 2^e, negated when neg is true; m is
\* a sequence of bits, empty for 0.0
DZero == [neg |-> FALSE, m |-> <<>>, e |-> 0]

\* the double nearest to m * 2^e, half way to even
DRound(neg, m, e) ==
    IF StripZeros(m) = <<>> THEN DZero
    ELSE [neg |-> neg, m |-> RoundTo53(StripZeros(m)), e |-> e]

\* -1, 0, 1 as the size of x is below, equal to, above that of y
DCompareAbs(x, y) ==
    LET e == IF x.e < y.e THEN x.e ELSE y.e
    IN  CompareBits(x.m \o Zeros(x.e - e), y.m \o Zeros(y.e - e))

\* the sum of two aligned doubles, mx * 2^e and my * 2^e with their signs,
\* given whether mx is the one not below the other: the sizes are added when
\* the signs agree, else the smaller is taken from the larger, whose sign
\* the result has
DSum(xneg, mx, yneg, my, e, xbig) ==
    DRound(IF xbig THEN xneg ELSE yneg,
           IF xneg = yneg THEN AddBits(mx, my)
           ELSE SubBits(IF xbig THEN mx ELSE my, IF xbig THEN my ELSE mx),
           e)

DAligned(xneg, mx, yneg, my, e) == DSum(xneg, mx, yneg, my, e, CompareBits(mx, my) >= 0)

DAddAt(x, y, e) == DAligned(x.neg, x.m \o Zeros(x.e - e), y.neg, y.m \o Zeros(y.e - e), e)

\* x + y
DAdd(x, y) == DAddAt(x, y, IF x.e < y.e THEN x.e ELSE y.e)

\* x - y
DSub(x, y) == DAdd(x, [y EXCEPT !.neg = ~y.neg])

\* the double nearest to  num / t * 2^(e + 1): the whole part of num / t and
\* a last bit that tells whether anything is left
DQuotient(neg, num, t, e) ==
    DRound(neg, DivBits(num, t) \o <<IF RemAt(num, t, Len(num)) # 0 THEN 1 ELSE 0>>, e)

\* x / t with k bits more in the numerator than x has
DDivBy(x, t, k) == DQuotient(x.neg, x.m \o Zeros(k), t, x.e - k - 1)

\* x / t for an integer t > 0: the numerator is made 54 bits longer than t,
\* so the quotient has 54 bits or more before the last one whatever x is
DDiv(x, t) == DDivBy(x, t, 54 + Len(BitsOf(t)))

\* the double of the integer n >= 0
DInt(n) == [neg |-> FALSE, m |-> BitsOf(n), e |-> 0]

\* the double a concentration of the CSV file is read as: the one nearest to
\* value / 1000
DoubleOf(value) == DDiv(DInt(value), 1000)

(***************************************************************************)
(* Reference tables.                                                       *)
(***************************************************************************)
Pollutants == {"PM1", "PM2.5", "PM10"}

\* Python's None in WHO_GUIDELINES: no guideline
None == -2

WHO_GUIDELINES ==
    [p \in Pollutants |->
        CASE p = "PM2.5" -> 15000
          [] p = "PM10"  -> 45000
          [] p = "PM1"   -> None]

SENSOR_MAPPING ==
    [s \in {14903, 14519, 14548, 14868} |->
        CASE s = 14903 -> "BM1"
          [] s = 14519 -> "BM2"
          [] s = 14548 -> "BM3"
          [] s = 14868 -> "BM4"]

\* the keys of SENSOR_LOCATIONS in insertion order (the coordinates play no part)
SENSOR_LOCATIONS == <<14903, 14519, 14548, 14868>>

\* a table whose last bound is 250 instead of float('inf')
LevelCapped(m, c, n) == [max |-> IF m = Inf THEN 250000 ELSE m, color |-> c, name |-> n]

Level(m, c, n) == [max |-> m, color |-> c, name |-> n]

COLOR_SCALE ==
    [p \in Pollutants |->
        CASE p = "PM2.5" ->
               << Level(11500, "#2E8B57", "SeaGreen"),
                  Level(23500, "#3CB371", "MediumSeaGreen"),
                  Level(35500, "#9ACD32", "YellowGreen"),
                  Level(41500, "#FFFF00", "Yellow"),
                  Level(47500, "#FFA500", "Orange"),
                  Level(53500, "#FF8C00", "DarkOrange"),
                  Level(58500, "#FF4500", "OrangeRed"),
                  Level(64500, "#DC143C", "Crimson"),
                  Level(70500, "#B22222", "FireBrick"),
                  Level(120000, "#800080", "Purple"),
                  Level(Inf, "#310154", "Deep Violet") >>
          [] p = "PM10" ->
               << Level(16500, "#2E8B57", "SeaGreen"),
                  Level(33500, "#3CB371", "MediumSeaGreen"),
                  Level(50500, "#9ACD32", "YellowGreen"),
                  Level(58500, "#FFFF00", "Yellow"),
                  Level(66500, "#FFA500", "Orange"),
                  Level(75500, "#FF8C00", "DarkOrange"),
                  Level(83500, "#FF4500", "OrangeRed"),
                  Level(91500, "#DC143C", "Crimson"),
                  Level(100500, "#B22222", "FireBrick"),
                  Level(180000, "#800080", "Purple"),
                  Level(Inf, "#310154", "Deep Violet") >>
          [] p = "PM1" ->
               << Level(11500, "#2E8B57", "SeaGreen"),
                  Level(23500, "#3CB371", "MediumSeaGreen"),
                  Level(35500, "#9ACD32", "YellowGreen"),
                  Level(41500, "#FFFF00", "Yellow"),
                  Level(47500, "#FFA500", "Orange"),
                  Level(53500, "#FF8C00", "DarkOrange"),
                  Level(58500, "#FF4500", "OrangeRed"),
                  Level(64500, "#DC143C", "Crimson"),
                  Level(70500, "#B22222", "FireBrick"),
                  Level(120000, "#800080", "Purple"),
                  Level(Inf, "#310154", "Deep Violet") >>]

\* the calibration ranges of the marker size
data_ranges ==
    [p \in Pollutants |->
        CASE p = "PM1"   -> [min |-> 400,  max |-> 238780]
          [] p = "PM2.5" -> [min |-> 690,  max |-> 277450]
          [] p = "PM10"  -> [min |-> 7670, max |-> 283980]]

(***************************************************************************)
(* get_color_for_value: the first level, in list order, with               *)
(* value <= level['max']; the last level when the loop finds none.         *)
(***************************************************************************)
\* the same loop with  <  for  <=
RECURSIVE FirstLevelStrict(_, _, _)
FirstLevelStrict(scale, value, i) ==
    IF i > Len(scale) THEN 0
    ELSE IF Lt(value, scale[i].max) THEN i
    ELSE FirstLevelStrict(scale, value, i + 1)

RECURSIVE FirstLevelFrom(_, _, _)
FirstLevelFrom(scale, value, i) ==
    IF i > Len(scale) THEN 0
    ELSE IF Leq(value, scale[i].max) THEN i
    ELSE FirstLevelFrom(scale, value, i + 1)

FirstLevel(scale, value) == FirstLevelFrom(scale, value, 1)

get_color_for_value(p, value) ==
    LET scale == IF p \in DOMAIN COLOR_SCALE THEN COLOR_SCALE[p] ELSE COLOR_SCALE["PM2.5"]
        i     == FirstLevel(scale, value)
        hit   == IF i # 0 THEN i ELSE Len(scale)
    IN  [color |-> scale[hit].color, name |-> scale[hit].name]

\* whether the loop ends without a return, so that the lines after it
\* ("Default to last color") give the result
ReachesDefault(p, value) ==
    LET scale == IF p \in DOMAIN COLOR_SCALE THEN COLOR_SCALE[p] ELSE COLOR_SCALE["PM2.5"]
    IN  FirstLevel(scale, value) = 0

(***************************************************************************)
(* The marker size of the map (create_map_visualization, lines 598-607).   *)
(***************************************************************************)
\* (value - min_val) / (max_val - min_val) of the value num / den, as a
\* fraction; a den of 0 is NaN and gives NaN
Normalized(p, num, den) ==
    LET min_val == data_ranges[p].min
        max_val == data_ranges[p].max
    IN  [num |-> num - min_val * den, den |-> (max_val - min_val) * den]

\* a clamp that forgets the upper end: max(0, normalized)
ClampLow(normalized) ==
    IF normalized.den # 0 /\ normalized.num > 0 THEN normalized ELSE [num |-> 0, den |-> 1]

\* max(0, min(1, normalized)): min gives normalized only if it is below 1,
\* max what min gave only if it is above 0, so NaN becomes 1
Clamp01(normalized) ==
    LET low == IF normalized.den # 0 /\ normalized.num < normalized.den
               THEN normalized ELSE [num |-> 1, den |-> 1]
    IN  IF low.num > 0 THEN low ELSE [num |-> 0, den |-> 1]

\* the whole part of (q + r / den) times the product of the factors, one
\* factor at a time to stay within 32 bits
RECURSIVE TimesFloor(_, _, _, _)
TimesFloor(q, r, den, factors) ==
    IF factors = <<>> THEN q
    ELSE LET f == Head(factors)
         IN  TimesFloor(q * f + (r * f) \div den, (r * f) % den, den, Tail(factors))

\* 25 + (normalized * 40), in units of 1/1000, of the value num / den
SizeOf(p, num, den) ==
    LET normalized == Clamp01(Normalized(p, num, den))
    IN  25000 + TimesFloor(normalized.num \div normalized.den, normalized.num % normalized.den,
                           normalized.den, <<10, 10, 10, 10, 4>>)

\* the size of a value that is a multiple of 1/1000, or NaN
MarkerSize(p, value) == IF IsNaN(value) THEN SizeOf(p, 0, 0) ELSE SizeOf(p, value, 1)

(***************************************************************************)
(* load_and_process_data: the rows of the CSV file with the derived        *)
(* columns.  From is the hour count of the reading's start, hour 0 being   *)
(* a Monday 00:00.                                                         *)
(***************************************************************************)
day_names == <<"Monday", "Tuesday", "Wednesday", "Thursday", "Friday", "Saturday", "Sunday">>

\* the Location_Name of a sensor id SENSOR_MAPPING does not know (a missing value)
NoName == "NaN"

\* Series.map(SENSOR_MAPPING)
MapSensor(id) == IF id \in DOMAIN SENSOR_MAPPING THEN SENSOR_MAPPING[id] ELSE NoName

\* dt.hour, dt.dayofweek (Monday = 0) and dt.day_name()
HourOf(from) == from % 24
DayNumOf(from) == (from \div 24) % 7
DayNameOf(from) == day_names[DayNumOf(from) + 1]

ProcessRow(raw) ==
    [ sensor_id     |-> raw.sensor_id,
      From          |-> raw.From,
      hour          |-> HourOf(raw.From),
      day_of_week   |-> DayNameOf(raw.From),
      day_num       |-> DayNumOf(raw.From),
      Location_Name |-> MapSensor(raw.sensor_id),
      pm            |-> raw.pm ]

RECURSIVE ProcessRows(_)
ProcessRows(csv) ==
    IF csv = <<>> THEN <<>> ELSE <<ProcessRow(Head(csv))>> \o ProcessRows(Tail(csv))

\* the file at csv_path: a file pandas reads, no file, a file pandas cannot read or parse
CsvFile(rows) == [exists |-> TRUE, parses |-> TRUE, rows |-> rows]
MissingFile   == [exists |-> FALSE, parses |-> FALSE, rows |-> <<>>]
BrokenFile    == [exists |-> TRUE, parses |-> FALSE, rows |-> <<>>]

\* a load that fails without a message
load_and_process_data_quiet(file) ==
    IF ~file.exists \/ ~file.parses
    THEN [none |-> TRUE, error |-> "", df |-> <<>>]
    ELSE [none |-> FALSE, error |-> "", df |-> ProcessRows(file.rows)]

\* what the function returns (df, none standing for "return None") and the
\* message it hands to st.error
load_and_process_data(file) ==
    IF ~file.exists
    THEN [none |-> TRUE, error |-> "Data file not found", df |-> <<>>]
    ELSE IF ~file.parses
    THEN [none |-> TRUE, error |-> "Error loading data", df |-> <<>>]
    ELSE [none |-> FALSE, error |-> "", df |-> ProcessRows(file.rows)]

\* the value of a row in the column of pollutant p
Val(row, p) == row.pm[p]

(***************************************************************************)
(* The pandas operations the views use.                                    *)
(***************************************************************************)
\* df[df['Location_Name'].notna()]
NotNaName(row) == row.Location_Name # NoName
ValidRows(rows) == SelectSeq(rows, NotNaName)

\* df[df['Location_Name'] == name]: a missing name is equal to nothing, itself included
RowsOf(rows, name) ==
    LET Test(row) == row.Location_Name # NoName /\ name # NoName /\ row.Location_Name = name
    IN  SelectSeq(rows, Test)

\* Series.unique(): the values in order of first appearance, a missing value among them
RECURSIVE UniqueFrom(_, _)
UniqueFrom(names, seen) ==
    IF names = <<>> THEN <<>>
    ELSE IF Head(names) \in seen THEN UniqueFrom(Tail(names), seen)
    ELSE <<Head(names)>> \o UniqueFrom(Tail(names), seen \cup {Head(names)})

UniqueNames(rows) == UniqueFrom([i \in 1..Len(rows) |-> rows[i].Location_Name], {})

\* Series.sum() of column p: missing values are skipped
RECURSIVE ColSum(_, _)
ColSum(rows, p) ==
    IF rows = <<>> THEN 0
    ELSE (IF IsNaN(Val(Head(rows), p)) THEN 0 ELSE Val(Head(rows), p)) + ColSum(Tail(rows), p)

\* Series.count() of column p: the values that are not missing
RECURSIVE ColCount(_, _)
ColCount(rows, p) ==
    IF rows = <<>> THEN 0
    ELSE (IF IsNaN(Val(Head(rows), p)) THEN 0 ELSE 1) + ColCount(Tail(rows), p)

\* the values of column p that are not missing, in the order of the rows
ColValues(rows, p) ==
    LET Present(row) == ~IsNaN(Val(row, p))
        with == SelectSeq(rows, Present)
    IN  [i \in 1..Len(with) |-> Val(with[i], p)]

\* the greatest common divisor of a >= 0 and b >= 0
RECURSIVE Gcd(_, _)
Gcd(a, b) == IF b = 0 THEN a ELSE Gcd(b, a % b)

\* one round of the loop of group_mean (pandas' groupby mean, a compensated
\* sum): sumx and compensation after the value val, with
\*   y = val - compensation,  t = sumx + y,  compensation = t - sumx - y
KahanNext(acc, y, t) == [sumx |-> t, compensation |-> DSub(DSub(t, acc.sumx), y)]

KahanAdd(acc, y) == KahanNext(acc, y, DAdd(acc.sumx, y))

KahanStep(acc, val) == KahanAdd(acc, DSub(val, acc.compensation))

\* sumx and compensation after all the values, acc being what they are after
\* the i - 1 first ones; the comparison has acc computed round by round
RECURSIVE KahanFrom(_, _, _)
KahanFrom(values, i, acc) ==
    IF acc = acc /\ i > Len(values) THEN acc
    ELSE KahanFrom(values, i + 1, KahanStep(acc, DoubleOf(values[i])))

\* sumx and compensation after the values
KahanSum(values) == KahanFrom(values, 1, [sumx |-> DZero, compensation |-> DZero])

\* the sum of the i first values
RECURSIVE SumTo(_, _)
SumTo(values, i) == IF i = 0 THEN 0 ELSE SumTo(values, i - 1) + values[i]

\* -1, 0, 1 as the double  sumx / count  that the mean of the values is comes
\* out below, equal to, above the double nearest to their exact mean.  Values
\* that are multiples of 1/8 are doubles exactly and so are their sums: the
\* compensation stays 0 and the one rounding is that of the quotient.
MeanSide(values) ==
    LET n == Len(values)
        s == SumTo(values, n)
    IN  IF \A i \in 1..n : values[i] % 125 = 0 THEN 0
        ELSE DCompareAbs(DDiv(KahanSum(values).sumx, n), DDiv(DInt(s), 1000 * n))

\* groupby(...)[p].mean() of one group: the double sumx / count of the values
\* that are not missing.  It is kept as the exact mean num / den, a fraction
\* in lowest terms, and the side of the double nearest to it on which the
\* double of the program is; NaN (den = 0) when no value is left.
ColMean(rows, p) ==
    LET s == ColSum(rows, p)
        n == ColCount(rows, p)
    IN  IF n = 0 THEN [num |-> 0, den |-> 0, side |-> 0]
        ELSE [num |-> s \div Gcd(s, n), den |-> n \div Gcd(s, n),
              side |-> MeanSide(ColValues(rows, p))]

\* whether a mean is NaN
IsNaMean(mean) == mean.den = 0

\* the least multiple b of 1/1000 with  mean <= b  as doubles: the exact mean
\* rounded up, and the next multiple when the exact mean is one but the
\* double mean is above its double
MeanCeil(mean) ==
    IF IsNaMean(mean) THEN NaN
    ELSE IF mean.den = 1 THEN mean.num + (IF mean.side > 0 THEN 1 ELSE 0)
    ELSE (mean.num + mean.den - 1) \div mean.den

\* Series.isna().all()
AllNa(rows, p) == \A i \in 1..Len(rows) : IsNaN(Val(rows[i], p))

\* (Series >= bound).sum()
RECURSIVE CountAtLeast(_, _, _)
CountAtLeast(rows, p, bound) ==
    IF rows = <<>> THEN 0
    ELSE (IF Leq(bound, Val(Head(rows), p)) THEN 1 ELSE 0) + CountAtLeast(Tail(rows), p, bound)

\* (Series > bound).sum()
RECURSIVE CountAbove(_, _, _)
CountAbove(rows, p, bound) ==
    IF rows = <<>> THEN 0
    ELSE (IF Gt(Val(Head(rows), p), bound) THEN 1 ELSE 0) + CountAbove(Tail(rows), p, bound)

(***************************************************************************)
(* create_time_series_chart                                                *)
(***************************************************************************)
NoChart == [shown |-> FALSE, error |-> FALSE, traces |-> <<>>]

\* one go.Scatter of the time series: x the From column, y the pollutant column
SeriesTrace(rows, p, sensor) ==
    LET sensor_data == RowsOf(rows, sensor)
    IN  [name |-> sensor,
         x    |-> [i \in 1..Len(sensor_data) |-> sensor_data[i].From],
         y    |-> [i \in 1..Len(sensor_data) |-> Val(sensor_data[i], p)]]

RECURSIVE SeriesTraces(_, _, _)
SeriesTraces(rows, p, sensors) ==
    IF sensors = <<>> THEN <<>>
    ELSE (IF AllNa(RowsOf(rows, Head(sensors)), p)
          THEN <<>>
          ELSE <<SeriesTrace(rows, p, Head(sensors))>>)
         \o SeriesTraces(rows, p, Tail(sensors))

create_time_series_chart(rows, p) ==
    LET sensors == UniqueNames(ValidRows(rows))
    IN  IF Len(sensors) = 0
        THEN [shown |-> TRUE, error |-> TRUE, traces |-> <<>>]
        ELSE [shown |-> TRUE, error |-> FALSE, traces |-> SeriesTraces(rows, p, sensors)]

(***************************************************************************)
(* create_weekly_pattern_chart                                             *)
(***************************************************************************)
\* the key of a row in groupby(['day_num', 'day_of_week', 'hour', 'Location_Name'])
WeeklyKey(row) ==
    [day_num |-> row.day_num, day_of_week |-> row.day_of_week,
     hour |-> row.hour, Location_Name |-> row.Location_Name]

\* groupby(...)[p].mean().reset_index(): one row per key that occurs, with the
\* mean of the group's values that are not missing (NaN when all are missing)
WeeklyPattern(rows, p) ==
    { LET InGroup(row) == WeeklyKey(row) = k
      IN  [day_num |-> k.day_num, day_of_week |-> k.day_of_week, hour |-> k.hour,
           Location_Name |-> k.Location_Name, mean |-> ColMean(SelectSeq(rows, InGroup), p)]
      : k \in {WeeklyKey(rows[i]) : i \in 1..Len(rows)} }

\* one go.Scatter of the weekly chart: a point per row of the sensor in weekly_pattern
WeeklyTrace(weekly_pattern, sensor) ==
    [name   |-> sensor,
     points |-> { [x |-> g.day_num * 24 + g.hour, y |-> g.mean,
                   customdata |-> <<g.day_of_week, g.hour>>]
                  : g \in {w \in weekly_pattern : w.Location_Name = sensor} }]

create_weekly_pattern_chart(rows, p) ==
    LET df_valid       == ValidRows(rows)
        weekly_pattern == WeeklyPattern(df_valid, p)
        sensors        == UniqueNames(df_valid)
    IN  IF Len(df_valid) = 0
        THEN [shown |-> TRUE, error |-> TRUE, traces |-> <<>>]
        ELSE [shown |-> TRUE, error |-> FALSE,
              traces |-> [i \in 1..Len(sensors) |-> WeeklyTrace(weekly_pattern, sensors[i])]]

(***************************************************************************)
(* create_single_day_chart                                                 *)
(***************************************************************************)
\* the key of a row in groupby(['hour', 'Location_Name'])
HourlyKey(row) == [hour |-> row.hour, Location_Name |-> row.Location_Name]

HourlyPattern(rows, p) ==
    { LET InGroup(row) == HourlyKey(row) = k
      IN  [hour |-> k.hour, Location_Name |-> k.Location_Name,
           mean |-> ColMean(SelectSeq(rows, InGroup), p)]
      : k \in {HourlyKey(rows[i]) : i \in 1..Len(rows)} }

\* a day filter that lets every row through
DayDataAll(rows, day) == rows

\* df_valid[df_valid['day_of_week'] == selected_day]
DayData(rows, day) ==
    LET OnDay(row) == row.day_of_week = day
    IN  SelectSeq(rows, OnDay)

HourlyTrace(hourly_pattern, sensor) ==
    [name   |-> sensor,
     points |-> { [x |-> g.hour, y |-> g.mean]
                  : g \in {h \in hourly_pattern : h.Location_Name = sensor} }]

RECURSIVE HourlyTraces(_, _)
HourlyTraces(hourly_pattern, sensors) ==
    IF sensors = <<>> THEN <<>>
    ELSE (IF {h \in hourly_pattern : h.Location_Name = Head(sensors)} = {}
          THEN <<>>
          ELSE <<HourlyTrace(hourly_pattern, Head(sensors))>>)
         \o HourlyTraces(hourly_pattern, Tail(sensors))

create_single_day_chart(rows, p, day) ==
    LET df_valid       == ValidRows(rows)
        day_data       == DayData(df_valid, day)
        hourly_pattern == HourlyPattern(day_data, p)
        sensors        == UniqueNames(df_valid)
    IN  IF Len(df_valid) = 0
        THEN [shown |-> TRUE, error |-> TRUE, traces |-> <<>>]
        ELSE IF Len(day_data) = 0
        THEN [shown |-> TRUE, error |-> FALSE, traces |-> <<>>]
        ELSE [shown |-> TRUE, error |-> FALSE, traces |-> HourlyTraces(hourly_pattern, sensors)]

(***************************************************************************)
(* create_map_visualization                                                *)
(***************************************************************************)
\* shown: a figure was returned and drawn; error: st.error was called ("No
\* valid sensor data found"); raised: the function ended in an exception
NoMap == [shown |-> FALSE, error |-> FALSE, raised |-> FALSE, day_num |-> 0, hour |-> 0, markers |-> <<>>]

\* time_points: 7 * 24 entries, entry i (from 0) being day i // 24, hour i % 24
time_points == [i \in 1..168 |-> [day_num |-> (i - 1) \div 24, hour |-> (i - 1) % 24, time_idx |-> i - 1]]

\* the marker of one sensor: the value read from the weekly pattern (a mean),
\* its colour and its size.  Every bound of COLOR_SCALE is a multiple of
\* 1/1000 or infinite, so  value <= level['max']  holds of the double mean
\* exactly when it holds of MeanCeil(value).
Marker(p, name, value) ==
    [name |-> name, value |-> value,
     color |-> get_color_for_value(p, MeanCeil(value)).color,
     color_name |-> get_color_for_value(p, MeanCeil(value)).name,
     size |-> SizeOf(p, value.num, value.den)]

\* the loop over SENSOR_LOCATIONS: a marker for every sensor with a row in current_data
RECURSIVE Markers(_, _, _)
Markers(current_data, p, ids) ==
    IF ids = <<>> THEN <<>>
    ELSE LET name        == SENSOR_MAPPING[Head(ids)]
             sensor_data == {g \in current_data : g.Location_Name = name}
         IN  (IF sensor_data = {}
              THEN <<>>
              ELSE <<Marker(p, name, (CHOOSE g \in sensor_data : TRUE).mean)>>)
             \o Markers(current_data, p, Tail(ids))

create_map_visualization(rows, p, selected_time_idx) ==
    LET df_valid       == ValidRows(rows)
        weekly_pattern == WeeklyPattern(df_valid, p)
        idx            == IF selected_time_idx >= Len(time_points) THEN 0 ELSE selected_time_idx
        \* a Python list index: a negative one counts from the end
        pos            == IF idx < 0 THEN Len(time_points) + idx + 1 ELSE idx + 1
        current_time   == time_points[pos]
        current_data   == {g \in weekly_pattern :
                              g.day_num = current_time.day_num /\ g.hour = current_time.hour}
    IN  IF Len(df_valid) = 0
        THEN [shown |-> TRUE, error |-> TRUE, raised |-> FALSE, day_num |-> 0, hour |-> 0, markers |-> <<>>]
        ELSE IF pos < 1
        \* IndexError at time_points[selected_time_idx]: no figure, no st.error
        THEN [shown |-> FALSE, error |-> FALSE, raised |-> TRUE, day_num |-> 0, hour |-> 0, markers |-> <<>>]
        ELSE [shown |-> TRUE, error |-> FALSE, raised |-> FALSE,
              day_num |-> current_time.day_num, hour |-> current_time.hour,
              markers |-> Markers(current_data, p, SENSOR_LOCATIONS)]

(***************************************************************************)
(* display_data_summary                                                    *)
(***************************************************************************)
NoSummary == [shown |-> FALSE, total |-> 0, coverage |-> [p \in Pollutants |-> 0], sensors |-> {}]

\* (total_possible - missing) / total_possible * 100, over the whole data frame
Coverage(rows, p) ==
    LET total_possible == Len(rows)
        missing        == Len(rows) - ColCount(rows, p)
    IN  ((total_possible - missing) * 100000) \div total_possible

\* groupby(['Sensor id', 'Location_Name']).size(): groups with a missing name are dropped
SensorCounts(rows) ==
    { LET Same(row) == row.sensor_id = k[1] /\ row.Location_Name = k[2]
      IN  [sensor_id |-> k[1], Location_Name |-> k[2], Records |-> Len(SelectSeq(rows, Same))]
      : k \in {<<rows[i].sensor_id, rows[i].Location_Name>> : i \in {j \in 1..Len(rows) : NotNaName(rows[j])}} }

display_data_summary(rows) ==
    [shown |-> TRUE, total |-> Len(rows),
     coverage |-> [p \in Pollutants |-> Coverage(rows, p)],
     sensors |-> SensorCounts(rows)]

(***************************************************************************)
(* display_pollutant_statistics                                            *)
(***************************************************************************)
NoStats == [shown |-> FALSE, error |-> FALSE, rows |-> <<>>, above |-> <<>>]

\* the location names in sorted order, the order of the groupby index
SortedNames == <<"BM1", "BM2", "BM3", "BM4">>

\* groupby('Location_Name')[p].agg(['count', ...]): a row per location in the data,
\* in sorted order; the rows without a name are in no group.  Of the aggregates
\* the count is kept.
StatsRows(rows, p) ==
    LET Present(name) == RowsOf(rows, name) # <<>>
        names == SelectSeq(SortedNames, Present)
    IN  [i \in 1..Len(names) |-> [Location_Name |-> names[i], Count |-> ColCount(RowsOf(rows, names[i]), p)]]

(***************************************************************************)
(* round(above_count / total_count * 100, 1).  The counts are numpy         *)
(* integers (Series.sum() and Series.count()), so the percentage is a      *)
(* numpy.float64 and its round is numpy's: rint(pct * 10) / 10.  The       *)
(* quotient, the product with 100 and the product with 10 are those of     *)
(* IEEE doubles, each rounded to 53 bits, and rint gives the integer       *)
(* nearest to the last product, the even one when it is exactly half way.  *)
(* The arithmetic on sequences of bits is that of the section on doubles.  *)
(***************************************************************************)
\* round(above_count / total_count * 100, 1) in units of 1/1000, for
\* 0 <= above_count <= total_count, total_count > 0.  With c = 2000 * above /
\* total, the exact percentage times 10 is c / 2: unless c is an odd integer
\* it is not half way between two integers, and the double pct * 10, which is
\* within 1e-12 of it, is rounded by rint as it is.  When c is odd the double
\* pct * 10 = m3 * 2^-(z + 53)  is compared with c / 2:  2 * m3  is set
\* against  c * 2^(z + 53).
Round1(above_count, total_count) ==
    LET c == (2000 * above_count) \div total_count
    IN  IF (2000 * above_count) % total_count # 0 \/ c % 2 = 0
        THEN ((2000 * above_count + total_count) \div (2 * total_count)) * 100
        ELSE
          LET z    == LeadingZeros(above_count, total_count)
              r    == above_count * Pow2(z)
              m    == BitsOfQuotient(r, total_count, 53)
              rest == RestOfQuotient(r, total_count, 53)
              \* above_count / total_count as a double: m1 * 2^-(z + 53)
              m1   == IF 2 * rest > total_count \/ (2 * rest = total_count /\ m[53] = 1)
                      THEN IncBits(m) ELSE m
              \* times 100 = 64 + 32 + 4, rounded to a double again: pct
              y    == AddBits(m1 \o Zeros(6), AddBits(m1 \o Zeros(5), m1 \o Zeros(2)))
              m2   == RoundTo53(StripZeros(y))
              \* times 10 = 8 + 2, rounded to a double again: pct * 10
              y10  == AddBits(m2 \o Zeros(3), m2 \o Zeros(1))
              m3   == RoundTo53(StripZeros(y10))
              mid  == BitsOf(c) \o Zeros(z + 53)
              side == CompareBits(m3 \o Zeros(1), mid)
              k    == c \div 2
          \* rint: the nearest integer, the even one of two equally near
          IN  IF side < 0 THEN k * 100
              ELSE IF side > 0 THEN (k + 1) * 100
              ELSE IF k % 2 = 0 THEN k * 100 ELSE (k + 1) * 100

\* the percentage of one location: above / total * 100, 0 without a value
AbovePct(rows, p, location) ==
    LET location_data == RowsOf(rows, location)
        above_count   == CountAbove(location_data, p, WHO_GUIDELINES[p])
        total_count   == ColCount(location_data, p)
    IN  IF total_count > 0 THEN (above_count * 100000) \div total_count ELSE 0

\* round(pct, 1) of the percentage of one location
AbovePctRounded(rows, p, location) ==
    LET location_data == RowsOf(rows, location)
        above_count   == CountAbove(location_data, p, WHO_GUIDELINES[p])
        total_count   == ColCount(location_data, p)
    IN  IF total_count > 0 THEN Round1(above_count, total_count) ELSE 0

\* the list above_who_pct: one percentage per value of df['Location_Name'].unique()
AboveWhoPct(rows, p) ==
    LET locations == UniqueNames(rows)
    IN  [i \in 1..Len(locations) |-> AbovePct(rows, p, locations[i])]

\* the column assigned at line 714: round(pct, 1) of every entry of above_who_pct
AboveWhoRounded(rows, p) ==
    LET locations == UniqueNames(rows)
    IN  [i \in 1..Len(locations) |-> AbovePctRounded(rows, p, locations[i])]

\* the table handed to st.dataframe.  Assigning the column to a table that has
\* rows raises ValueError when the list and the index differ in length: the
\* run ends there.  A table without any row (no reading has a location name)
\* takes its index from the list instead: it gets one row per entry, labelled
\* 0, 1, ..., with the other columns empty.
display_pollutant_statistics(rows, p) ==
    LET stats == StatsRows(rows, p)
        above_who_pct == AboveWhoPct(rows, p)
        column == AboveWhoRounded(rows, p)
    IN  IF WHO_GUIDELINES[p] # None
        THEN IF Len(stats) = 0
             THEN [shown |-> TRUE, error |-> FALSE,
                   rows |-> [i \in 1..Len(column) |->
                               [Location_Name |-> ToString(i - 1),
                                Count |-> NaN,
                                AboveWHO |-> column[i]]],
                   above |-> above_who_pct]
             ELSE IF Len(column) # Len(stats)
             THEN [shown |-> FALSE, error |-> TRUE, rows |-> <<>>, above |-> above_who_pct]
             ELSE [shown |-> TRUE, error |-> FALSE,
                   rows |-> [i \in 1..Len(stats) |->
                               [Location_Name |-> stats[i].Location_Name,
                                Count |-> stats[i].Count,
                                AboveWHO |-> column[i]]],
                   above |-> above_who_pct]
        ELSE [shown |-> TRUE, error |-> FALSE,
              rows |-> [i \in 1..Len(stats) |->
                          [Location_Name |-> stats[i].Location_Name,
                           Count |-> stats[i].Count,
                           AboveWHO |-> None]],
              above |-> <<>>]

(***************************************************************************)
(* st.session_state and check_password                                     *)
(***************************************************************************)
EmptySession == [k \in {} |-> 0]

Has(sess, key) == key \in DOMAIN sess
Put(sess, key, value) == [k \in DOMAIN sess \cup {key} |-> IF k = key THEN value ELSE sess[k]]
Del(sess, key) == [k \in DOMAIN sess \ {key} |-> sess[k]]

\* os.getenv("APP_PASSWORD", "merton")
DEFAULT_PASSWORD == "merton"

\* hashlib.sha256(text.encode()).hexdigest(): different texts, different digests
Sha256(text) == <<"sha256", text>>

\* the on_change callback of the password field; the field has stored its text
\* under the key "password" before the callback runs
password_entered(sess) ==
    IF Sha256(sess["password"]) = Sha256(DEFAULT_PASSWORD)
    THEN Del(Put(sess, "password_correct", TRUE), "password")
    ELSE Put(sess, "password_correct", FALSE)

\* a gate that opens as soon as a submission has been made
check_password_open(sess) == Has(sess, "password_correct")

\* st.session_state.get("password_correct", False)
check_password(sess) == IF Has(sess, "password_correct") THEN sess["password_correct"] ELSE FALSE

(***************************************************************************)
(* main: one run of the script.  slider is the position the user dragged   *)
(* the slider to in this run, None when the slider was not touched (it     *)
(* then returns the value it was given, the session's time index).         *)
(***************************************************************************)
NoHeader == [shown |-> FALSE, text |-> "", day |-> 0, hour |-> 0]

\* a Python list index from 0: a negative one counts from the end of the list
PyIndex(list, i) == IF i < 0 THEN list[Len(list) + i + 1] ELSE list[i + 1]

\* the "## <day> <hour>:00" line of the map tab
Header(time_index) ==
    LET current_day  == time_index \div 24
        current_hour == time_index % 24
    IN  IF current_day < 7
        THEN [shown |-> TRUE, text |-> PyIndex(day_names, current_day), day |-> current_day, hour |-> current_hour]
        ELSE [shown |-> TRUE, text |-> "End of Week", day |-> current_day, hour |-> current_hour]

LoginPage(sess) ==
    [page |-> "login",
     login_error |-> Has(sess, "password_correct") /\ ~sess["password_correct"],
     load_error |-> "", loads |-> 0,
     ts |-> NoChart, stats |-> NoStats, weekly |-> NoChart, single |-> NoChart,
     header |-> NoHeader, map |-> NoMap, summary |-> NoSummary]

\* the run ends in the first tab when display_pollutant_statistics raises
CrashedPage(ts, stats) ==
    [page |-> "dashboard", login_error |-> FALSE, load_error |-> "", loads |-> 1,
     ts |-> ts, stats |-> stats, weekly |-> NoChart, single |-> NoChart,
     header |-> NoHeader, map |-> NoMap, summary |-> NoSummary]

\* the run ends after the title when load_and_process_data returns None:
\* the page has the title and the error message of the load
LoadErrorPage(error) ==
    [page |-> "load_error", login_error |-> FALSE, load_error |-> error, loads |-> 1,
     ts |-> NoChart, stats |-> NoStats, weekly |-> NoChart, single |-> NoChart,
     header |-> NoHeader, map |-> NoMap, summary |-> NoSummary]

\* cached is what st.cache_data holds of load_and_process_data when the run
\* begins: the data frame of an earlier run, none before the first load.  The
\* function is called once, behind the password check, and runs only when
\* nothing is cached.
Run(sess, cached, p, day, slider) ==
    IF ~check_password(sess)
    THEN [session |-> sess, pollutant |-> "PM2.5", selected_day |-> "All Days", df |-> cached,
          out |-> LoginPage(sess)]
    ELSE
      LET data  == IF cached # <<>>
                   THEN [none |-> FALSE, error |-> "", df |-> cached]
                   ELSE load_and_process_data(csv_file)
          rows  == data.df
          ts    == create_time_series_chart(rows, p)
          stats == display_pollutant_statistics(rows, p)
          s1    == IF ~Has(sess, "time_index") THEN Put(sess, "time_index", 0) ELSE sess
          new_time_index == IF slider = None THEN s1["time_index"] ELSE slider
          s2    == IF new_time_index # s1["time_index"] THEN Put(s1, "time_index", new_time_index) ELSE s1
      IN  IF data.none
          THEN [session |-> sess, pollutant |-> "PM2.5", selected_day |-> "All Days", df |-> <<>>,
                out |-> LoadErrorPage(data.error)]
          ELSE IF stats.error
          THEN [session |-> sess, pollutant |-> p, selected_day |-> "All Days", df |-> rows,
                out |-> CrashedPage(ts, stats)]
          ELSE [session |-> s2, pollutant |-> p, selected_day |-> day, df |-> rows,
                out |-> [page |-> "dashboard", login_error |-> FALSE, load_error |-> "", loads |-> 1,
                         ts |-> ts, stats |-> stats,
                         weekly |-> create_weekly_pattern_chart(rows, p),
                         single |-> IF day # "All Days"
                                    THEN create_single_day_chart(rows, p, day)
                                    ELSE NoChart,
                         header |-> Header(s1["time_index"]),
                         map |-> create_map_visualization(rows, p, s2["time_index"]),
                         summary |-> display_data_summary(rows)]]

\* the page and the state a run leaves behind.  A widget that a run does not
\* draw loses its value: the selectboxes start again from their first option.
Leave(r) ==
    /\ df' = r.df
    /\ session' = r.session
    /\ pollutant' = r.pollutant
    /\ selected_day' = r.selected_day
    /\ out' = r.out

(***************************************************************************)
(* The user's actions, each with the run, or the runs, it sets off.        *)
(***************************************************************************)
Passwords == {"merton", "wrong"}
DayOptions == {"All Days", "Monday", "Tuesday", "Wednesday", "Thursday", "Friday", "Saturday", "Sunday"}

\* the user submits a text in the password field
PasswordEntered ==
    /\ out.page = "login"
    /\ \E text \in Passwords :
          Leave(Run(password_entered(Put(session, "password", text)), df, pollutant, selected_day, None))
    /\ UNCHANGED <<csv_file, probe>>

\* a logout that deletes the flag alone
LogoutKeep ==
    /\ out.page = "dashboard"
    /\ Leave(Run(Del(session, "password_correct"), df, pollutant, selected_day, None))
    /\ UNCHANGED <<csv_file, probe>>

\* the Logout button: every key is deleted, st.rerun()
Logout ==
    /\ out.page = "dashboard"
    /\ Leave(Run(EmptySession, df, pollutant, selected_day, None))
    /\ UNCHANGED <<csv_file, probe>>

SelectPollutant ==
    /\ out.page = "dashboard"
    /\ \E p \in Pollutants \ {pollutant} :
          Leave(Run(session, df, p, selected_day, None))
    /\ UNCHANGED <<csv_file, probe>>

SelectDay ==
    /\ out.weekly.shown
    /\ \E d \in DayOptions \ {selected_day} :
          Leave(Run(session, df, pollutant, d, None))
    /\ UNCHANGED <<csv_file, probe>>

\* a step that does not stop at the ends of the week
StepFree(delta) ==
    /\ out.map.shown
    /\ Leave(Run(Put(session, "time_index", session["time_index"] + delta), df, pollutant, selected_day, None))
    /\ UNCHANGED <<csv_file, probe>>

\* the four buttons: the new index is stored, st.rerun() starts the script again
Step(delta) ==
    /\ out.map.shown
    /\ LET t == session["time_index"]
           n == IF delta < 0 THEN PyMax(0, t + delta) ELSE PyMin(167, t + delta)
       IN  Leave(Run(Put(session, "time_index", n), df, pollutant, selected_day, None))
    /\ UNCHANGED <<csv_file, probe>>

Minus24h == Step(-24)
Minus1h  == Step(-1)
Plus1h   == Step(1)
Plus24h  == Step(24)

\* the positions the user drags the slider to: both ends of its range
\* (min_value 0, max_value 167) and an hour inside the week
SliderStops == {0, 100, 167}

\* the user drags the slider to another position
SliderMove ==
    /\ out.map.shown
    /\ \E v \in SliderStops :
          /\ v # session["time_index"]
          /\ Leave(Run(session, df, pollutant, selected_day, v))
    /\ UNCHANGED <<csv_file, probe>>

(***************************************************************************)
(* The data.                                                               *)
(***************************************************************************)
\* two sensors of SENSOR_MAPPING and one it does not know
DataSensors == {14903, 14519, 99999}
\* Monday 00:00, Monday 01:00, Tuesday 00:00, Monday 00:00 of the next week
TimeStamps == {0, 1, 24, 168}

PmRow(pm1, pm25, pm10) ==
    [p \in Pollutants |-> CASE p = "PM1" -> pm1 [] p = "PM2.5" -> pm25 [] p = "PM10" -> pm10]

\* the pollutant columns of a row: PM1, PM2.5, PM10
ValueRows == { PmRow(NaN, 14000, 45000), PmRow(12000, 16000, NaN), PmRow(NaN, NaN, 46000) }

RawRows == [sensor_id : DataSensors, From : TimeStamps, pm : ValueRows]

Datasets == UNION { [1..n -> RawRows] : n \in 1..MaxRows }

\* one file: both sensors on two Mondays at 00:00
SampleCsv ==
    << [sensor_id |-> 14903, From |-> 0,   pm |-> PmRow(12000, 16000, NaN)],
       [sensor_id |-> 14519, From |-> 0,   pm |-> PmRow(NaN, 14000, 45000)],
       [sensor_id |-> 14903, From |-> 168, pm |-> PmRow(NaN, 14000, 45000)] >>

\* a single call under test: its arguments (pollutant, value) and what it returned
NoProbe == [called |-> FALSE, pollutant |-> "PM2.5", value |-> 0, color |-> "", name |-> "", size |-> 0,
            default |-> FALSE]

\* the browser opens the page: nothing is in the session, nothing is cached
InitPage(file) ==
    /\ csv_file = file
    /\ df = <<>>
    /\ session = EmptySession
    /\ pollutant = "PM2.5"
    /\ selected_day = "All Days"
    /\ out = LoginPage(EmptySession)

(***************************************************************************)
(* Spec: the dashboard over one file, with the time navigation.            *)
(***************************************************************************)
Init ==
    /\ InitPage(CsvFile(SampleCsv))
    /\ probe = NoProbe

Next ==
    \/ PasswordEntered
    \/ Logout
    \/ SelectPollutant
    \/ SelectDay
    \/ Minus24h
    \/ Minus1h
    \/ Plus1h
    \/ Plus24h
    \/ SliderMove

Spec == Init /\ [][Next]_vars

(***************************************************************************)
(* SpecViews: the views of each pollutant over every file of up to MaxRows *)
(* rows, at the time index the session starts with.                        *)
(***************************************************************************)
\* the files: every file of up to MaxRows rows, no file, a file that cannot be read
Files == {CsvFile(csv) : csv \in Datasets} \cup {MissingFile, BrokenFile}

InitViews ==
    /\ \E file \in Files : InitPage(file)
    /\ probe = NoProbe

NextViews ==
    \/ PasswordEntered
    \/ Logout
    \/ SelectPollutant

SpecViews == InitViews /\ [][NextViews]_vars

(***************************************************************************)
(* SpecDays: the weekly and the single-day view of PM2.5 over every file   *)
(* of up to MaxRows rows of the two known sensors, for every choice of     *)
(* the day.                                                                *)
(***************************************************************************)
DayRawRows == [sensor_id : {14903, 14519}, From : TimeStamps, pm : ValueRows]

DayDatasets == UNION { [1..n -> DayRawRows] : n \in 1..MaxRows }

InitDays ==
    /\ \E csv \in DayDatasets : InitPage(CsvFile(csv))
    /\ probe = NoProbe

NextDays ==
    \/ PasswordEntered
    \/ SelectDay

SpecDays == InitDays /\ [][NextDays]_vars

(***************************************************************************)
(* SpecClassify: single calls of get_color_for_value and of the size       *)
(* scaling, on every concentration 0.00, 0.01, ..., MaxCenti / 100.        *)
(***************************************************************************)
ProbeValues == {c * 10 : c \in 0..MaxCenti}

InitClassify ==
    /\ InitPage(CsvFile(SampleCsv))
    /\ \E p \in Pollutants, v \in ProbeValues :
          probe = [NoProbe EXCEPT !.pollutant = p, !.value = v]

Classify ==
    /\ ~probe.called
    /\ probe' = [probe EXCEPT !.called = TRUE,
                              !.color = get_color_for_value(probe.pollutant, probe.value).color,
                              !.name = get_color_for_value(probe.pollutant, probe.value).name,
                              !.default = ReachesDefault(probe.pollutant, probe.value),
                              !.size = MarkerSize(probe.pollutant, probe.value)]
    /\ UNCHANGED <<csv_file, df, session, pollutant, selected_day, out>>

NextClassify == Classify

SpecClassify == InitClassify /\ [][NextClassify]_vars

(***************************************************************************)
(* The claims.                                                             *)
(***************************************************************************)

\* C1: for every pollutant and every value that is not missing,
\* get_color_for_value returns the colour and the name of the first level of
\* the pollutant's list whose bound is at least the value: the bound of the
\* level returned is >= the value and the bound of every earlier level is
\* below it.  A value equal to a level's bound gets that level, not the next
\* one: PM2.5 11.5 is SeaGreen and 11.6 is MediumSeaGreen.
C1_FirstMatch ==
    probe.called =>
        LET scale == COLOR_SCALE[probe.pollutant]
        IN  /\ \E i \in 1..Len(scale) :
                  /\ probe.color = scale[i].color
                  /\ probe.name = scale[i].name
                  /\ probe.value <= scale[i].max
                  /\ \A j \in 1..(i - 1) : scale[j].max < probe.value
            /\ \A i \in 1..Len(scale) :
                  probe.value = scale[i].max =>
                      probe.color = scale[i].color /\ probe.name = scale[i].name
            /\ (probe.pollutant = "PM2.5" /\ probe.value = 11500 => probe.name = "SeaGreen")
            /\ (probe.pollutant = "PM2.5" /\ probe.value = 11600 => probe.name = "MediumSeaGreen")

\* C1 witness: PM2.5 at 11.5, the bound of the first level, has been classified SeaGreen
C1_Witness ==
    /\ probe.called
    /\ probe.pollutant = "PM2.5"
    /\ probe.value = 11500
    /\ probe.name = "SeaGreen"

\* C2: from time index 0, whatever buttons are pressed and slider positions
\* chosen, the session's time index stays an integer of 0..167, and a button
\* moves it by exactly its step (1 or 24) unless that leaves the range: then
\* the index is 0 (backward) or 167 (forward); +24h at 167 leaves it at 167.
C2_Navigation ==
    /\ [](Has(session, "time_index") => session["time_index"] \in 0..167)
    /\ [][ LET t == session["time_index"]
               u == session'["time_index"]
           IN  /\ (Minus24h => u = IF t - 24 < 0 THEN 0 ELSE t - 24)
               /\ (Minus1h  => u = IF t - 1 < 0 THEN 0 ELSE t - 1)
               /\ (Plus1h   => u = IF t + 1 > 167 THEN 167 ELSE t + 1)
               /\ (Plus24h  => u = IF t + 24 > 167 THEN 167 ELSE t + 24)
               /\ (Plus24h /\ t = 167 => u = 167) ]_vars

\* C2 witness: the navigation has reached the last hour of the week, which the map shows
C2_Witness ==
    /\ out.map.shown
    /\ session["time_index"] = 167
    /\ out.header.text = "Sunday"
    /\ out.header.hour = 23
    /\ out.map.day_num = 6
    /\ out.map.hour = 23

\* C3: in the weekly view, the value of (sensor, weekday, hour) is the sum of
\* the values, not missing, of the sensor's readings starting on that weekday
\* and hour, whatever their week, over the number of those values; a
\* combination without such a value has no entry at all, and every
\* combination with one has an entry.  Readings of 16 and 14 on two Mondays
\* at 00:00 give 15.
C3_WeeklyMeans ==
    (out.weekly.shown /\ ~out.weekly.error) =>
        LET traces == out.weekly.traces
            Group(s, d, h) ==
                LET In(row) == /\ row.Location_Name = s /\ row.day_num = d /\ row.hour = h
                               /\ ~IsNaN(Val(row, pollutant))
                IN  SelectSeq(df, In)
        IN  /\ \A k \in 1..Len(traces) : \A q \in traces[k].points :
                  LET g == Group(traces[k].name, q.x \div 24, q.x % 24)
                  IN  /\ g # <<>>
                      /\ ~IsNaMean(q.y)
                      /\ q.y.num * Len(g) = ColSum(g, pollutant) * q.y.den
            /\ \A i \in 1..Len(df) :
                  (NotNaName(df[i]) /\ ~IsNaN(Val(df[i], pollutant))) =>
                      \E k \in 1..Len(traces) :
                          /\ traces[k].name = df[i].Location_Name
                          /\ \E q \in traces[k].points : q.x = df[i].day_num * 24 + df[i].hour

\* C4: a reading whose sensor id SENSOR_MAPPING does not know is in no entry
\* of the weekly, single-day and map views (they are those of the data
\* without it), and it is a point of the time series view.
C4_UnknownSensor ==
    /\ out.weekly.shown => out.weekly = create_weekly_pattern_chart(ValidRows(df), pollutant)
    /\ out.single.shown => out.single = create_single_day_chart(ValidRows(df), pollutant, selected_day)
    /\ out.map.shown => out.map = create_map_visualization(ValidRows(df), pollutant, session["time_index"])
    /\ out.ts.shown =>
          \A i \in 1..Len(df) :
              (~NotNaName(df[i]) /\ ~IsNaN(Val(df[i], pollutant))) =>
                  \E k \in 1..Len(out.ts.traces) :
                      \E j \in 1..Len(out.ts.traces[k].x) :
                          /\ out.ts.traces[k].x[j] = df[i].From
                          /\ out.ts.traces[k].y[j] = Val(df[i], pollutant)

\* C5: in the time series, the weekly and the single-day view, a sensor with
\* readings but without a value, not missing, of the pollutant has no trace:
\* every trace is of a sensor with at least one such value.
C5_NoTraceWithoutValue ==
    LET HasValue(name) ==
            \E i \in 1..Len(df) : df[i].Location_Name = name /\ ~IsNaN(Val(df[i], pollutant))
        AllHaveValue(traces) == \A k \in 1..Len(traces) : HasValue(traces[k].name)
    IN  /\ out.ts.shown => AllHaveValue(out.ts.traces)
        /\ out.weekly.shown => AllHaveValue(out.weekly.traces)
        /\ out.single.shown => AllHaveValue(out.single.traces)

\* C6: the map hands no missing value to get_color_for_value or to the size
\* scaling: a sensor whose weekly bucket at the map's weekday and hour has no
\* value is left out, so no marker carries a missing value (drawn in the
\* colour of the last level at the largest size).
C6_NoMissingMarker ==
    out.map.shown =>
        \A k \in 1..Len(out.map.markers) :
            /\ ~IsNaMean(out.map.markers[k].value)
            /\ \E i \in 1..Len(df) :
                  /\ df[i].Location_Name = out.map.markers[k].name
                  /\ df[i].day_num = out.map.day_num
                  /\ df[i].hour = out.map.hour
                  /\ ~IsNaN(Val(df[i], pollutant))

\* C7: for every pollutant and every value, below the calibration minimum and
\* above the maximum included, the marker size is within [25, 65]; it is 25
\* for a value <= min, 65 for a value >= max, and it does not decrease as the
\* value grows (here: from the value 0.01 below to the value).
C7_MarkerSize ==
    probe.called =>
        LET r == data_ranges[probe.pollutant]
        IN  /\ probe.size >= 25000
            /\ probe.size <= 65000
            /\ (probe.value <= r.min => probe.size = 25000)
            /\ (probe.value >= r.max => probe.size = 65000)
            /\ (probe.value >= 10 => MarkerSize(probe.pollutant, probe.value - 10) <= probe.size)

\* C7 witness: sizes have been computed at the largest size, above the maximum of PM1
C7_Witness ==
    /\ probe.called
    /\ probe.pollutant = "PM1"
    /\ probe.value = 250000
    /\ probe.size = 65000

\* C8: the single-day view of a weekday has exactly the (sensor, hour)
\* entries the weekly view has on that weekday, with the same mean; so per
\* sensor the entries of the weekly view with a value are as many as those of
\* the seven single-day views together.
C8_SingleDayOfWeekly ==
    (out.weekly.shown /\ out.single.shown) =>
        LET d == CHOOSE k \in 0..6 : day_names[k + 1] = selected_day
            Entries(traces) ==
                UNION { { <<traces[k].name, q.x, q.y>> : q \in traces[k].points }
                        : k \in 1..Len(traces) }
            OfDay == { <<e[1], e[2] - 24 * d, e[3]>>
                       : e \in {w \in Entries(out.weekly.traces) : w[2] \div 24 = d} }
            WithValue(entries, name) == Cardinality({e \in entries : e[1] = name /\ ~IsNaMean(e[3])})
            Day(k) == Entries(create_single_day_chart(df, pollutant, day_names[k]).traces)
        IN  /\ Entries(out.single.traces) = OfDay
            /\ \A name \in {df[i].Location_Name : i \in 1..Len(df)} :
                  WithValue(Entries(out.weekly.traces), name)
                    = WithValue(Day(1), name) + WithValue(Day(2), name) + WithValue(Day(3), name)
                      + WithValue(Day(4), name) + WithValue(Day(5), name) + WithValue(Day(6), name)
                      + WithValue(Day(7), name)

\* C8 witness: Tuesday is shown with its one entry, of 14 at 00:00, while the
\* weekly view has that entry and one on Monday
C8_Witness ==
    /\ out.weekly.shown
    /\ out.single.shown
    /\ selected_day = "Tuesday"
    /\ \E k \in 1..Len(out.single.traces) :
          out.single.traces[k].points = {[x |-> 0, y |-> [num |-> 14000, den |-> 1, side |-> 0]]}
    /\ \E k \in 1..Len(out.weekly.traces) :
          \E q \in out.weekly.traces[k].points : q.x = 0
    /\ \E k \in 1..Len(out.weekly.traces) :
          \E q \in out.weekly.traces[k].points : q.x = 24 /\ q.y = [num |-> 14000, den |-> 1, side |-> 0]

\* C9: the coverage reported for a pollutant is that of each sensor: the
\* sensor's readings with a value over all the sensor's readings, times 100,
\* whatever the data of the other sensors.
C9_CoveragePerSensor ==
    out.summary.shown =>
        \A p \in Pollutants : \A s \in {df[i].sensor_id : i \in 1..Len(df)} :
            LET Mine(row) == row.sensor_id = s
                mine == SelectSeq(df, Mine)
            IN  out.summary.coverage[p] = (ColCount(mine, p) * 100000) \div Len(mine)

\* C10: for PM2.5 and PM10 the percentage computed for a sensor is the share
\* of its values, missing ones left out of both counts, that are strictly
\* above the guideline (15, 45): a value equal to the guideline does not
\* count.  For PM1 no percentage is produced.
C10_AboveGuideline ==
    out.page = "dashboard" =>
        IF pollutant = "PM1"
        THEN /\ out.stats.above = <<>>
             /\ \A k \in 1..Len(out.stats.rows) : out.stats.rows[k].AboveWHO = None
        ELSE LET names == UniqueNames(df)
                 g == IF pollutant = "PM2.5" THEN 15000 ELSE 45000
             IN  /\ Len(out.stats.above) = Len(names)
                 /\ \A k \in 1..Len(names) :
                       LET vals  == {i \in 1..Len(df) : /\ df[i].Location_Name = names[k]
                                                         /\ ~IsNaN(Val(df[i], pollutant))}
                           above == {i \in vals : Val(df[i], pollutant) > g}
                           pct   == out.stats.above[k]
                       IN  (names[k] # NoName /\ vals # {}) =>
                               /\ pct * Cardinality(vals) <= 100000 * Cardinality(above)
                               /\ 100000 * Cardinality(above) < (pct + 1) * Cardinality(vals)

\* C10 witness: PM10 of a sensor with the readings 45 and 46: half of them are above 45
C10_Witness ==
    /\ out.page = "dashboard"
    /\ pollutant = "PM10"
    /\ out.stats.shown
    /\ \E k \in 1..Len(out.stats.rows) :
          /\ out.stats.rows[k].AboveWHO = 50000
          /\ \E i, j \in 1..Len(df) :
                /\ df[i].Location_Name = out.stats.rows[k].Location_Name
                /\ df[j].Location_Name = out.stats.rows[k].Location_Name
                /\ Val(df[i], "PM10") = 45000
                /\ Val(df[j], "PM10") = 46000

\* C12: the dashboard is behind the password check.  Whatever a run shows of
\* the data (time series, statistics, weekly, single-day, header, map,
\* summary), the session flag password_correct is true, and the data is
\* loaded only in a run in which it is true; the flag becomes true
\* only by submitting the configured password; a wrong submission sets it to
\* false and leaves the prompt in place; and once the password is accepted
\* its text is no longer in the session state.
C12_PasswordGate ==
    /\ [](LET Correct(sess) == Has(sess, "password_correct") /\ sess["password_correct"]
              Content(o) == \/ o.page # "login"
                            \/ o.ts.shown \/ o.stats.shown \/ o.weekly.shown \/ o.single.shown
                            \/ o.header.shown \/ o.map.shown \/ o.summary.shown
          IN  /\ Content(out) => Correct(session)
              /\ Correct(session) => ~Has(session, "password"))
    /\ [][ LET Correct(sess) == Has(sess, "password_correct") /\ sess["password_correct"]
               Content(o) == \/ o.page # "login"
                             \/ o.ts.shown \/ o.stats.shown \/ o.weekly.shown \/ o.single.shown
                             \/ o.header.shown \/ o.map.shown \/ o.summary.shown
           IN  /\ (df' # df) => Correct(session')
               /\ (~Correct(session) /\ Correct(session')) =>
                      /\ out.page = "login"
                      /\ session' = Run(password_entered(Put(session, "password", DEFAULT_PASSWORD)),
                                        df, pollutant, selected_day, None).session
               /\ (Has(session', "password") /\ session'["password"] # DEFAULT_PASSWORD) =>
                      /\ session'["password_correct"] = FALSE
                      /\ ~Content(out')
                      /\ out'.login_error ]_vars

\* C12 witness: the password has been accepted: the dashboard is shown, the
\* flag is true and the submitted text is gone from the session state
C12_Witness ==
    /\ out.page = "dashboard"
    /\ out.ts.shown
    /\ out.map.shown
    /\ session["password_correct"] = TRUE
    /\ ~Has(session, "password")

\* C13: for each of PM1, PM2.5 and PM10 the bounds of the levels grow strictly
\* along the list and the last one is infinite, so a value that is not
\* missing lies in exactly one level (above the bound of the level before,
\* at most its own bound), that level is the one returned, and the lines
\* after the loop ("default to last") are not reached; the PM1 list equals
\* the PM2.5 list level for level: bound, colour and name.
C13_Bands ==
    probe.called =>
        LET scale == COLOR_SCALE[probe.pollutant]
            n     == Len(scale)
            In(i) == /\ (i = 1 \/ scale[i - 1].max < probe.value)
                     /\ probe.value <= scale[i].max
        IN  /\ \A i \in 1..(n - 1) : scale[i].max < scale[i + 1].max
            /\ scale[n].max = Inf
            /\ Cardinality({i \in 1..n : In(i)}) = 1
            /\ \E i \in 1..n : In(i) /\ probe.color = scale[i].color /\ probe.name = scale[i].name
            /\ ~probe.default
            /\ Len(COLOR_SCALE["PM1"]) = Len(COLOR_SCALE["PM2.5"])
            /\ \A i \in 1..Len(COLOR_SCALE["PM1"]) :
                  /\ COLOR_SCALE["PM1"][i].max = COLOR_SCALE["PM2.5"][i].max
                  /\ COLOR_SCALE["PM1"][i].color = COLOR_SCALE["PM2.5"][i].color
                  /\ COLOR_SCALE["PM1"][i].name = COLOR_SCALE["PM2.5"][i].name

\* C13 witness: a PM1 value above every finite bound, 120.01, has been
\* classified by the loop into the last level, as PM2.5 would be
C13_Witness ==
    /\ probe.called
    /\ probe.pollutant = "PM1"
    /\ probe.value = 120010
    /\ probe.name = "Deep Violet"
    /\ ~probe.default
    /\ get_color_for_value("PM2.5", probe.value).name = "Deep Violet"

\* C14: when the data file is missing or cannot be read or parsed,
\* load_and_process_data reports an error and returns no data frame, and the
\* run of main that called it stops there: the page has the error and no
\* control, tab, chart or statistic, and the load was called once in that run.
C14_LoadFailure ==
    (~csv_file.exists \/ ~csv_file.parses) =>
        /\ df = <<>>
        /\ out.page \in {"login", "load_error"}
        /\ (check_password(session) => out.page = "load_error")
        /\ (out.page = "load_error" =>
               /\ out.load_error # ""
               /\ out.load_error = (IF csv_file.exists THEN "Error loading data" ELSE "Data file not found")
               /\ out.loads = 1)
        /\ ~out.ts.shown /\ ~out.stats.shown /\ ~out.weekly.shown /\ ~out.single.shown
        /\ ~out.header.shown /\ ~out.map.shown /\ ~out.summary.shown
        /\ ~ENABLED Logout /\ ~ENABLED SelectPollutant /\ ~ENABLED SelectDay
        /\ ~ENABLED Plus1h /\ ~ENABLED SliderMove

\* C14 witness: the password has been accepted and the file is not there:
\* the page is the one with the error of the load
C14_Witness ==
    /\ ~csv_file.exists
    /\ check_password(session)
    /\ out.page = "load_error"
    /\ out.load_error = "Data file not found"

\* C15: in the statistics table of PM2.5 and PM10, whatever the file and the
\* order in which its sensors first appear, the table is drawn and the
\* 'Above WHO (%)' of a location's row is the percentage, rounded to one
\* decimal, of that location's own values above the guideline.
C15_AboveWhoOnRow ==
    (out.page = "dashboard" /\ pollutant # "PM1") =>
        /\ out.stats.shown
        /\ \A k \in 1..Len(out.stats.rows) :
              out.stats.rows[k].AboveWHO
                = AbovePctRounded(df, pollutant, out.stats.rows[k].Location_Name)

\* C16: in every run that draws the Map View tab, the weekday and the hour of
\* the header line are those of the time index handed to
\* create_map_visualization in that run, after a button press and also in the
\* run set off by moving the slider; "End of Week" is never the header.
C16_HeaderOfMap ==
    (out.header.shown /\ out.map.shown) =>
        /\ out.header.day = out.map.day_num
        /\ out.header.hour = out.map.hour
        /\ out.header.text = day_names[out.map.day_num + 1]
        /\ out.header.text # "End of Week"

\* C17: Logout deletes every key of the session state: the run that follows
\* shows the password prompt and nothing of the dashboard, the prompt is left
\* only by submitting the configured password, and the dashboard then starts
\* at time index 0 (Monday 00:00); and no button or slider of the time
\* navigation changes the flag password_correct.
C17_Logout ==
    /\ [](out.page = "login" =>
             /\ ~out.ts.shown /\ ~out.stats.shown /\ ~out.weekly.shown /\ ~out.single.shown
             /\ ~out.header.shown /\ ~out.map.shown /\ ~out.summary.shown)
    /\ [][ /\ Logout =>
                  /\ session' = EmptySession
                  /\ DOMAIN session' = {}
                  /\ out'.page = "login"
                  /\ ~out'.login_error
           /\ (out.page = "login" /\ out'.page # "login") =>
                  /\ session' = Run(password_entered(Put(session, "password", DEFAULT_PASSWORD)),
                                    df, pollutant, selected_day, None).session
                  /\ session'["time_index"] = 0
                  /\ out'.header.text = "Monday" /\ out'.header.hour = 0
                  /\ out'.map.day_num = 0 /\ out'.map.hour = 0
           /\ \/ /\ Has(session, "password_correct")
                 /\ Has(session', "password_correct")
                 /\ session'["password_correct"] = session["password_correct"]
              \/ ~(Minus24h \/ Minus1h \/ Plus1h \/ Plus24h \/ SliderMove) ]_vars

\* C17 witness: the prompt after a logout: the session state is empty while
\* the data frame of the earlier, authenticated run is still cached
C17_Witness ==
    /\ out.page = "login"
    /\ session = EmptySession
    /\ df # <<>>

====
